---- MODULE Spec2Model ----
(***************************************************************************)
(* Model of python/tca/core.py: the transaction-cost-analysis functions    *)
(* implementation_shortfall, trading_cost, trading_pnl, vwap, pwp and rpm, *)
(* and the generator vwap_cr they are built on.                            *)
(*                                                                         *)
(* Numbers are exact rationals [t |-> "num", n, d] in lowest terms with    *)
(* d > 0 (Python floats are modelled without rounding).  A Python call     *)
(* that raises is modelled by a result whose err field names the           *)
(* exception class; "none" means the call returned.                        *)
(***************************************************************************)
EXTENDS Integers, Sequences, FiniteSets, TLC

\* ------------------------------------------------------------------ bounds
MaxPx    == 2    \* prices are drawn from 0..MaxPx (trade prices from 1..MaxPx)
MaxQty   == 3    \* trade quantities are drawn from 0..MaxQty
MaxLen   == 2    \* longest trade sequence
MaxOrder == 3    \* order quantities are drawn from 0..MaxOrder
MaxPov   == 2    \* pov = a / b with a in 0..MaxPov, b in 1..MaxPov
MaxFee   == 1    \* fees are drawn from 0..MaxFee
MaxOps   == 4    \* operations performed on one generator object

\* ------------------------------------------------------- values and floats
None == [t |-> "None"]

Abs(x) == IF x < 0 THEN -x ELSE x

RECURSIVE GCD(_, _)
GCD(a, b) == IF b = 0 THEN a ELSE GCD(b, a % b)

\* the number n / d (d # 0), in lowest terms
Frac(n, d) ==
    LET s == IF d < 0 THEN -1 ELSE 1
        g == GCD(Abs(n), Abs(d))
    IN  [t |-> "num", n |-> (s * n) \div g, d |-> (s * d) \div g]

Num(k) == Frac(k, 1)

\* Python's a / b on numbers a = an/ad and b = bn/bd
TrueDiv(a, b) ==
    IF b.n = 0 THEN [val |-> None, err |-> "ZeroDivisionError"]
    ELSE [val |-> Frac(a.n * b.d, a.d * b.n), err |-> "none"]

Mul(a, b) == Frac(a.n * b.n, a.d * b.d)
Add(a, b) == Frac(a.n * b.d + b.n * a.d, a.d * b.d)
Sub(a, b) == Frac(a.n * b.d - b.n * a.d, a.d * b.d)

\* math.ceil of the number a
Ceil(a) == -((-a.n) \div a.d)

Min(a, b) == IF a <= b THEN a ELSE b

\* class Side(IntEnum): the value is the sign
BUY  == 1
SELL == -1
Side == {BUY, SELL}

\* zip(px, qty): pairs up to the shorter sequence
Zip(px, qty) == [i \in 1..Min(Len(px), Len(qty)) |-> <<px[i], qty[i]>>]

RECURSIVE SumSeq(_)
SumSeq(s) == IF s = <<>> THEN 0 ELSE s[1] + SumSeq(Tail(s))

\* ------------------------------------------------------------ the generator
\* vwap_cr(): calling the generator function returns a generator object that
\* has not started; its frame holds wgt_px, total_qty and vwap.
vwap_cr ==
    [t |-> "generator", st |-> "created",
     wgt_px |-> 0, total_qty |-> 0, vwap |-> Num(0)]

\* the function object vwap_cr itself
vwap_cr_fn == [t |-> "function"]

\* obj(): calling an object.  A function call returns its result; a generator
\* object is not callable.
Call(obj) ==
    IF obj.t = "function"
    THEN [val |-> vwap_cr, err |-> "none"]
    ELSE [val |-> None, err |-> "TypeError"]

\* g.send(arg) with a single argument, on generator object g.  The result
\* holds the generator afterwards, the value yielded and the exception.
\* An exception raised inside the frame finishes the generator.
GenSend(g, arg) ==
    IF g.st = "closed"
    THEN [g |-> g, val |-> None, err |-> "StopIteration"]
    ELSE IF g.st = "created"
    THEN IF arg # None
         THEN [g |-> g, val |-> None, err |-> "TypeError"]
         ELSE [g |-> [g EXCEPT !.st = "suspended"], val |-> g.vwap, err |-> "none"]
    ELSE IF arg = None
    THEN [g |-> [g EXCEPT !.st = "closed"], val |-> None, err |-> "TypeError"]
    ELSE LET w == g.wgt_px + arg.px * arg.qty
             q == g.total_qty + arg.qty
             v == TrueDiv(Num(w), Num(q))
         IN  IF v.err # "none"
             THEN [g |-> [g EXCEPT !.st = "closed", !.wgt_px = w, !.total_qty = q],
                   val |-> None, err |-> v.err]
             ELSE [g |-> [g EXCEPT !.wgt_px = w, !.total_qty = q, !.vwap = v.val],
                   val |-> v.val, err |-> "none"]

\* g.send(*a): send takes exactly one argument
SendArgs(g, a) ==
    IF Len(a) # 1
    THEN [g |-> g, val |-> None, err |-> "TypeError"]
    ELSE GenSend(g, a[1])

\* the tuple (px, qty)
Pair(px, qty) == [t |-> "pair", px |-> px, qty |-> qty]

\* ------------------------------------------------------------------- state
VARIABLES
    fn, args, ret, err, loc,     \* the last function call: name, arguments,
                                 \* value returned, exception, locals at exit
    gen,                         \* a generator object made by vwap_cr()
    obs,                         \* the last operation on gen and its outcome
    ref,                         \* sums over the feeds gen has accepted, their
                                 \* number, and the operation that finished gen
    pre,                         \* gen and ref before the last operation
    nops                         \* operations performed on gen

callVars == <<fn, args, ret, err, loc>>
crVars   == <<gen, obs, ref, pre, nops>>
vars     == <<fn, args, ret, err, loc, gen, obs, ref, pre, nops>>

NoRef == [wgt_px |-> 0, total_qty |-> 0, n |-> 0, closedBy |-> "none"]

Init ==
    /\ fn = "none" /\ args = None /\ ret = None /\ err = "none" /\ loc = None
    /\ gen = vwap_cr
    /\ obs = [op |-> "none", arg |-> None, val |-> None, err |-> "none"]
    /\ ref = NoRef
    /\ pre = [gen |-> vwap_cr, ref |-> NoRef]
    /\ nops = 0

\* ---------------------------------------------- operations on the generator
TradePx  == 1..MaxPx
TradeQty == 0..MaxQty

\* next(gen), which is gen.send(None)
GenNextOp ==
    /\ nops < MaxOps
    /\ LET r == GenSend(gen, None)
       IN  /\ gen' = r.g
           /\ obs' = [op |-> "next", arg |-> None, val |-> r.val, err |-> r.err]
           /\ ref' = IF r.g.st = "closed" /\ gen.st # "closed"
                     THEN [ref EXCEPT !.closedBy = "next"]
                     ELSE ref
    /\ pre' = [gen |-> gen, ref |-> ref]
    /\ nops' = nops + 1
    /\ UNCHANGED callVars

\* gen.send((px, qty))
GenSendOp ==
    /\ nops < MaxOps
    /\ \E px \in TradePx, qty \in TradeQty :
         LET r == SendArgs(gen, <<Pair(px, qty)>>)
         IN  /\ gen' = r.g
             /\ obs' = [op |-> "send", arg |-> Pair(px, qty),
                        val |-> r.val, err |-> r.err]
             /\ ref' = IF r.err = "none"
                       THEN [ref EXCEPT !.wgt_px = @ + px * qty,
                                        !.total_qty = @ + qty,
                                        !.n = @ + 1]
                       ELSE IF r.g.st = "closed" /\ gen.st # "closed"
                       THEN [ref EXCEPT !.closedBy = "send"]
                       ELSE ref
    /\ pre' = [gen |-> gen, ref |-> ref]
    /\ nops' = nops + 1
    /\ UNCHANGED callVars

\* gen = vwap_cr(): a fresh generator object replaces the old one
GenNewOp ==
    /\ nops > 0
    /\ gen' = Call(vwap_cr_fn).val
    /\ obs' = [op |-> "new", arg |-> None, val |-> None, err |-> "none"]
    /\ ref' = NoRef
    /\ pre' = [gen |-> gen, ref |-> ref]
    /\ nops' = 0
    /\ UNCHANGED callVars

NextCr == GenNextOp \/ GenSendOp \/ GenNewOp

SpecCr == Init /\ [][NextCr]_vars

\* ------------------------------------------------------ the batch functions
\* the literal 10e4 of trading_cost
TenE4 == 100000

\* implementation_shortfall with the qty_filled > qty_order test left out
implementation_shortfall_no_overfill_test(px_arrival, px_final, px_exec_avg, qty_filled, qty_order, fees) ==
    IF qty_filled < 0
    THEN [ret |-> None, err |-> "ValueError", loc |-> None]
    ELSE LET qty_unfilled == qty_order - qty_filled
         IN  [ret |-> [t |-> "ImplementationShortfall",
                       trading_cost |-> qty_filled * (px_exec_avg - px_arrival),
                       opportunity_cost |-> qty_unfilled * (px_final - px_arrival),
                       fees |-> fees],
              err |-> "none",
              loc |-> [qty_unfilled |-> qty_unfilled]]

\* implementation_shortfall(px_arrival, px_final, px_exec_avg, qty_filled,
\*                          qty_order, fees)
implementation_shortfall(px_arrival, px_final, px_exec_avg, qty_filled, qty_order, fees) ==
    IF qty_filled > qty_order \/ qty_filled < 0
    THEN [ret |-> None, err |-> "ValueError", loc |-> None]
    ELSE LET qty_unfilled == qty_order - qty_filled
         IN  [ret |-> [t |-> "ImplementationShortfall",
                       trading_cost |-> qty_filled * (px_exec_avg - px_arrival),
                       opportunity_cost |-> qty_unfilled * (px_final - px_arrival),
                       fees |-> fees],
              err |-> "none",
              loc |-> [qty_unfilled |-> qty_unfilled]]

\* trading_cost(px_benchmark, px_exec_avg, side)
trading_cost(px_benchmark, px_exec_avg, side) ==
    LET d == TrueDiv(Num(px_exec_avg - px_benchmark), Num(px_benchmark))
    IN  IF d.err # "none"
        THEN [ret |-> None, err |-> d.err, loc |-> None]
        ELSE [ret |-> Mul(Mul(Num(side), d.val), Num(TenE4)),
              err |-> "none", loc |-> None]

\* trading_pnl(px_benchmark, px_exec_avg, side)
trading_pnl(px_benchmark, px_exec_avg, side) ==
    LET c == trading_cost(px_benchmark, px_exec_avg, side)
    IN  IF c.err # "none"
        THEN c
        ELSE [ret |-> Mul(Num(-1), c.ret), err |-> "none", loc |-> None]

\* the loop of vwap over z = zip(px, qty), from trade i on: every trade is
\* sent with two arguments, vcr.send(p, q)
RECURSIVE vwapLoop(_, _, _, _, _)
vwapLoop(z, i, vcr, vwp, fed) ==
    IF i > Len(z)
    THEN [ret |-> vwp, err |-> "none", loc |-> [fed |-> fed, i |-> i - 1]]
    ELSE LET r == SendArgs(vcr, <<z[i][1], z[i][2]>>)
         IN  IF r.err # "none"
             THEN [ret |-> None, err |-> r.err, loc |-> [fed |-> fed, i |-> i - 1]]
             ELSE vwapLoop(z, i + 1, r.g, r.val, fed + z[i][2])

\* vwap(px, qty): vcr = vwap_cr(); next(vcr()); then the loop
vwap(px, qty) ==
    LET vcr == Call(vwap_cr_fn).val
        c   == Call(vcr)
    IN  IF c.err # "none"
        THEN [ret |-> None, err |-> c.err, loc |-> [fed |-> 0, i |-> 0]]
        ELSE LET n == GenSend(c.val, None)
             IN  IF n.err # "none"
                 THEN [ret |-> None, err |-> n.err, loc |-> [fed |-> 0, i |-> 0]]
                 ELSE vwapLoop(Zip(px, qty), 1, vcr, None, 0)

\* the loop of pwp over z = zip(px_trade, qty_trade), from trade i on
RECURSIVE pwpLoop(_, _, _, _, _, _)
pwpLoop(z, i, vcr, vwp, pwp_qty, fed) ==
    IF i > Len(z) \/ pwp_qty <= 0
    THEN [ret |-> vwp, err |-> "none",
          loc |-> [pwp_qty |-> pwp_qty, fed |-> fed, i |-> i - 1]]
    ELSE LET vwp_q == Min(pwp_qty, z[i][2])
             r     == SendArgs(vcr, <<z[i][1], vwp_q>>)
         IN  IF r.err # "none"
             THEN [ret |-> None, err |-> r.err,
                   loc |-> [pwp_qty |-> pwp_qty, fed |-> fed, i |-> i - 1]]
             ELSE pwpLoop(z, i + 1, r.g, r.val, pwp_qty - vwp_q, fed + vwp_q)

\* pwp(qty_order, pov, px_trade, qty_trade)
pwp(qty_order, pov, px_trade, qty_trade) ==
    LET d == TrueDiv(Num(qty_order), pov)
    IN  IF d.err # "none"
        THEN [ret |-> None, err |-> d.err, loc |-> None]
        ELSE LET pwp_qty == Ceil(d.val)
                 vcr     == Call(vwap_cr_fn).val
                 c       == Call(vcr)
                 atCall  == [pwp_qty |-> pwp_qty, fed |-> 0, i |-> 0]
             IN  IF c.err # "none"
                 THEN [ret |-> None, err |-> c.err, loc |-> atCall]
                 ELSE LET n == GenSend(c.val, None)
                      IN  IF n.err # "none"
                          THEN [ret |-> None, err |-> n.err, loc |-> atCall]
                          ELSE pwpLoop(Zip(px_trade, qty_trade), 1, vcr, None, pwp_qty, 0)

\* the loop of rpm over z = zip(px_trade, qty_trade): qty_outperform
RECURSIVE rpmOutperform(_, _, _)
rpmOutperform(px_exec_avg, side, z) ==
    IF z = <<>> THEN 0
    ELSE LET p == z[1][1]
             q == z[1][2]
             outperform == IF side = BUY THEN px_exec_avg < p ELSE px_exec_avg > p
         IN  (IF outperform THEN q ELSE 0) + rpmOutperform(px_exec_avg, side, Tail(z))

\* rpm(px_exec_avg, side, px_trade, qty_trade)
rpm(px_exec_avg, side, px_trade, qty_trade) ==
    LET z                == Zip(px_trade, qty_trade)
        qty_outperform   == rpmOutperform(px_exec_avg, side, z)
        qty_total        == SumSeq([i \in 1..Len(z) |-> z[i][2]])
        qty_underperform == qty_total - qty_outperform
        o                == TrueDiv(Num(qty_outperform), Num(qty_total))
        u                == TrueDiv(Num(qty_underperform), Num(qty_total))
        l                == [qty_outperform |-> qty_outperform,
                             qty_total |-> qty_total,
                             qty_underperform |-> qty_underperform]
    IN  IF o.err # "none"
        THEN [ret |-> None, err |-> o.err, loc |-> l]
        ELSE [ret |-> Mul(Frac(1, 2), Sub(Add(Num(1), o.val), u.val)),
              err |-> "none", loc |-> l]

\* ------------------------------------------------------- calls by a client
Prices   == 0..MaxPx
Orders   == 0..MaxOrder
Fills    == -1..(MaxOrder + 1)
Fees     == 0..MaxFee
Povs     == {Frac(a, b) : a \in 0..MaxPov, b \in 1..MaxPov}
SeqsUpTo(S, n) == UNION {[1..k -> S] : k \in 0..n}
PxSeqs   == SeqsUpTo(TradePx, MaxLen)
QtySeqs  == SeqsUpTo(TradeQty, MaxLen)

\* the call f(a) ended with outcome r
Returned(f, a, r) ==
    /\ fn' = f /\ args' = a
    /\ ret' = r.ret /\ err' = r.err /\ loc' = r.loc
    /\ UNCHANGED crVars

\* The functions keep no state between calls (the module has no globals), so
\* a behaviour is one call with arguments drawn from the bounded sets.
CallImplementationShortfall ==
    /\ fn = "none"
    /\ \E pa \in Prices, pf \in Prices, pe \in Prices,
           qf \in Fills, qo \in Orders, fe \in Fees :
            Returned("implementation_shortfall",
                     [px_arrival |-> pa, px_final |-> pf, px_exec_avg |-> pe,
                      qty_filled |-> qf, qty_order |-> qo, fees |-> fe],
                     implementation_shortfall(pa, pf, pe, qf, qo, fe))

CallTradingCost ==
    /\ fn = "none"
    /\ \E b \in Prices, e \in Prices, s \in Side :
            Returned("trading_cost",
                     [px_benchmark |-> b, px_exec_avg |-> e, side |-> s],
                     trading_cost(b, e, s))

CallTradingPnl ==
    /\ fn = "none"
    /\ \E b \in Prices, e \in Prices, s \in Side :
            Returned("trading_pnl",
                     [px_benchmark |-> b, px_exec_avg |-> e, side |-> s],
                     trading_pnl(b, e, s))

CallVwap ==
    /\ fn = "none"
    /\ \E px \in PxSeqs, qty \in QtySeqs :
            /\ Len(px) = Len(qty)
            /\ Returned("vwap", [px |-> px, qty |-> qty], vwap(px, qty))

CallPwp ==
    /\ fn = "none"
    /\ \E qo \in Orders, pov \in Povs, px \in PxSeqs, qty \in QtySeqs :
            /\ Len(px) = Len(qty)
            /\ Returned("pwp",
                        [qty_order |-> qo, pov |-> pov, px_trade |-> px, qty_trade |-> qty],
                        pwp(qo, pov, px, qty))

CallRpm ==
    /\ fn = "none"
    /\ \E pe \in Prices, s \in Side, px \in PxSeqs, qty \in QtySeqs :
            /\ Len(px) = Len(qty)
            /\ Returned("rpm",
                        [px_exec_avg |-> pe, side |-> s, px_trade |-> px, qty_trade |-> qty],
                        rpm(pe, s, px, qty))

Next ==
    \/ CallImplementationShortfall
    \/ CallTradingCost
    \/ CallTradingPnl
    \/ CallVwap
    \/ CallPwp
    \/ CallRpm

Spec == Init /\ [][Next]_vars

\* ------------------------------------------------------------------ claims
\* the volume pwp needs for arguments a: ceil(qty_order / pov), pov # 0
Needed(a) == Ceil(TrueDiv(Num(a.qty_order), a.pov).val)

\* the weighted price sum w and the quantity q of the first n shares of the
\* trades z, the last trade taken clipped
RECURSIVE FirstShares(_, _)
FirstShares(z, n) ==
    IF z = <<>> \/ n <= 0 THEN [w |-> 0, q |-> 0]
    ELSE LET k == Min(n, z[1][2])
             r == FirstShares(Tail(z), n - k)
         IN  [w |-> z[1][1] * k + r.w, q |-> k + r.q]

PovInRange(a) == a.pov.n > 0 /\ a.pov.n <= a.pov.d

\* C1: when pov is in (0, 1] and ceil(qty_order / pov) exceeds the sum of
\* all trade quantities, pwp returns None (no price) and raises nothing.
C1_InsufficientLiquidityIsNone ==
    (fn = "pwp" /\ PovInRange(args) /\ Needed(args) > SumSeq(args.qty_trade))
        => (err = "none" /\ ret = None)

\* C2: when pwp exits, the quantity fed to the accumulator is at most the
\* needed volume, the remaining needed volume is not negative, fed and
\* remaining add up to the needed volume, and the trades were fed clipped
\* until the needed volume or the sequence ran out: fed = min(needed, total).
C2_FeedsClippedToNeeded ==
    (fn = "pwp" /\ PovInRange(args))
        => /\ loc.fed <= Needed(args)
           /\ loc.pwp_qty >= 0
           /\ loc.fed + loc.pwp_qty = Needed(args)
           /\ loc.fed = Min(Needed(args), SumSeq(args.qty_trade))

\* C3: rpm returns exactly 1/2 when every trade price equals px_exec_avg and
\* the total quantity is positive, for BUY and for SELL.
C3_FullTieIsHalf ==
    (/\ fn = "rpm"
     /\ \A i \in 1..Len(args.px_trade) : args.px_trade[i] = args.px_exec_avg
     /\ SumSeq(args.qty_trade) > 0)
        => (err = "none" /\ ret = Frac(1, 2))

\* C4: vwap over a non-empty sequence of positive total quantity feeds every
\* trade and returns sum(price_i * quantity_i) / sum(quantity_i).
C4_BatchVwapIsWeightedMean ==
    (fn = "vwap" /\ Len(args.px) > 0 /\ SumSeq(args.qty) > 0)
        => /\ err = "none"
           /\ loc.i = Len(args.px)
           /\ ret = Frac(SumSeq([i \in 1..Len(args.px) |-> args.px[i] * args.qty[i]]),
                         SumSeq(args.qty))

\* C5: vwap of two empty sequences returns None and raises nothing.
C5_EmptyVwapIsNone ==
    (fn = "vwap" /\ args.px = <<>> /\ args.qty = <<>>)
        => (err = "none" /\ ret = None)

\* C6: the accumulator yields no number before a trade has been fed: a read
\* (next) with no accepted feed fails, and every number observed comes after
\* at least one accepted feed.
C6_NoVwapBeforeFirstFeed ==
    /\ (obs.op = "next" /\ ref.n = 0) => obs.err # "none"
    /\ (obs.val # None) => ref.n > 0

\* C7: implementation_shortfall raises ValueError and builds no record when
\* qty_filled < 0 or qty_filled > qty_order; otherwise it returns
\* trading_cost = qty_filled * (px_exec_avg - px_arrival), opportunity_cost =
\* (qty_order - qty_filled) * (px_final - px_arrival) and the fees unchanged.
C7_ShortfallValidatedThenComputed ==
    fn = "implementation_shortfall" =>
        IF args.qty_filled < 0 \/ args.qty_filled > args.qty_order
        THEN err = "ValueError" /\ ret = None /\ loc = None
        ELSE /\ err = "none"
             /\ ret.trading_cost = args.qty_filled * (args.px_exec_avg - args.px_arrival)
             /\ ret.opportunity_cost =
                    (args.qty_order - args.qty_filled) * (args.px_final - args.px_arrival)
             /\ ret.fees = args.fees

\* a call with more filled than ordered was refused
C7_Witness ==
    /\ fn = "implementation_shortfall"
    /\ args.qty_filled > args.qty_order
    /\ args.qty_order > 0
    /\ args.px_exec_avg # args.px_arrival
    /\ err = "ValueError"

\* C8: for px_benchmark # 0 trading_cost is side * (px_exec_avg -
\* px_benchmark) / px_benchmark times 10,000, and trading_pnl is its negation.
C8_CostInBasisPoints ==
    /\ (fn = "trading_cost" /\ args.px_benchmark # 0)
           => ret = Frac(args.side * (args.px_exec_avg - args.px_benchmark) * 10000,
                         args.px_benchmark)
    /\ (fn = "trading_pnl" /\ args.px_benchmark # 0)
           => ret = Frac(-(args.side * (args.px_exec_avg - args.px_benchmark) * 10000),
                         args.px_benchmark)

\* C9: a feed that fails leaves the accumulator as it was, and a later feed
\* that makes the total quantity positive returns the VWAP of the accepted
\* feeds and itself, as if the failed feed had never happened.
C9_FailedFeedLeavesAccumulator ==
    /\ (obs.op = "send" /\ obs.err # "none") => gen = pre.gen
    /\ (/\ obs.op = "send"
        /\ pre.gen.st # "created"
        /\ pre.ref.closedBy # "next"
        /\ pre.ref.total_qty + obs.arg.qty > 0)
           => /\ obs.err = "none"
              /\ obs.val = Frac(pre.ref.wgt_px + obs.arg.px * obs.arg.qty,
                                pre.ref.total_qty + obs.arg.qty)

\* C10: for qty_order > 0 and trades of total quantity at least qty_order,
\* pwp at pov = 1 returns the VWAP of the first qty_order shares.
C10_FullParticipationIsPrefixVwap ==
    (/\ fn = "pwp"
     /\ args.pov = Num(1)
     /\ args.qty_order > 0
     /\ SumSeq(args.qty_trade) >= args.qty_order)
        => LET f == FirstShares(Zip(args.px_trade, args.qty_trade), args.qty_order)
           IN  err = "none" /\ ret = Frac(f.w, f.q)

====
